---------------------------- MODULE Spec2Model ----------------------------
(***************************************************************************)
(* A model of seispy/rfcorrect.py: the moveout correction, the 1-D ray     *)
(* tracing and the time-to-depth conversion of receiver functions.         *)
(*                                                                         *)
(* Numbers are exact: a real is a rational <<n, d>> in lowest terms, and   *)
(* an array element is a record [nan, re, im], since the travel-time and   *)
(* offset curves of the velocity model are complex below the depth where   *)
(* the ray is evanescent and numpy keeps NaN apart from every number.      *)
(* Array indices are 0-based in the source and 1-based here: element j of  *)
(* the source is element j + 1 of the sequence.                            *)
(***************************************************************************)
EXTENDS Integers, Sequences, FiniteSets, TLC

(***************************************************************************)
(* Bounds of the model.                                                    *)
(***************************************************************************)
\* number of samples of the depth grid (YAxisRange.shape[0])
NDepth == 3
\* number of samples of a trace (rflength)
RfLength == 5
\* number of events of the station (ev_num)
EvNum == 2
\* the pre-event window (shift / sampling) is 1..MaxShift samples long
MaxShift == 2
\* number of amplitude patterns the traces are drawn from
NSeeds == 2
\* spacing of the depth grid, in km
DepthStep == 2
\* the station elevation is 0..MaxElev km
MaxElev == 1
\* calls of the station's methods in a row
MaxCalls == 2

(***************************************************************************)
(* Exact rationals.                                                        *)
(***************************************************************************)
Abs(n) == IF n < 0 THEN -n ELSE n

RECURSIVE Gcd(_, _)
Gcd(a, b) == IF b = 0 THEN a ELSE Gcd(b, a % b)

\* the rational n / d (d # 0) in lowest terms with a positive denominator
Q(n, d) ==
    LET g == Gcd(Abs(n), Abs(d))
        s == IF d < 0 THEN -1 ELSE 1
    IN  <<(s * n) \div g, (s * d) \div g>>

QI(n) == <<n, 1>>
QZero == <<0, 1>>
\* sums and products; the denominators are reduced by their common
\* divisors (g, h) before the products are formed, which keeps the
\* intermediate integers small
QAddBy(a, b, g) ==
    Q(a[1] * (b[2] \div g) + b[1] * (a[2] \div g), (a[2] \div g) * b[2])
QAdd(a, b) == IF a[2] = 1 /\ b[2] = 1 THEN <<a[1] + b[1], 1>>
              ELSE IF a[2] = b[2] THEN Q(a[1] + b[1], a[2])
              ELSE QAddBy(a, b, Gcd(a[2], b[2]))
QSub(a, b) == QAdd(a, <<-b[1], b[2]>>)
QMulBy(a, b, g, h) ==
    Q((a[1] \div g) * (b[1] \div h), (a[2] \div h) * (b[2] \div g))
QMul(a, b) == IF a[2] = 1 /\ b[2] = 1 THEN <<a[1] * b[1], 1>>
              ELSE QMulBy(a, b, Gcd(Abs(a[1]), b[2]), Gcd(Abs(b[1]), a[2]))
QLt(a, b) == a[1] * b[2] < b[1] * a[2]
QLe(a, b) == a[1] * b[2] <= b[1] * a[2]
QAbs(a) == <<Abs(a[1]), a[2]>>

(***************************************************************************)
(* Array elements: NaN, or a complex number with rational parts.  A real   *)
(* is a complex number whose imaginary part is 0.                          *)
(***************************************************************************)
NaN == [nan |-> TRUE, re |-> QZero, im |-> QZero]
C(re, im) == [nan |-> FALSE, re |-> re, im |-> im]
R(q) == C(q, QZero)
RI(n) == R(QI(n))
CI(n, m) == C(QI(n), QI(m))
Zero == RI(0)

IsNaN(v) == v.nan
IsReal(v) == ~v.nan /\ v.im = QZero

\* numpy's inf and -inf: a real whose rational has the denominator 0
Inf == [nan |-> FALSE, re |-> <<1, 0>>, im |-> QZero]
NegInf == [nan |-> FALSE, re |-> <<-1, 0>>, im |-> QZero]
IsInf(v) == ~v.nan /\ v.re[2] = 0
SignedInf(n) == IF n < 0 THEN NegInf ELSE Inf
VNeg(a) == IF a.nan THEN a ELSE C(<<-a.re[1], a.re[2]>>, <<-a.im[1], a.im[2]>>)

VAdd(a, b) == IF a.nan \/ b.nan THEN NaN
              ELSE IF a.re[2] = 0 \/ b.re[2] = 0
              THEN IF a.re[2] = 0 /\ b.re[2] = 0 /\ a.re # b.re THEN NaN
                   ELSE IF a.re[2] = 0 THEN SignedInf(a.re[1])
                   ELSE SignedInf(b.re[1])
              ELSE C(QAdd(a.re, b.re), QAdd(a.im, b.im))
VSub(a, b) == IF a.nan \/ b.nan THEN NaN
              ELSE IF a.re[2] = 0 \/ b.re[2] = 0 THEN VAdd(a, VNeg(b))
              ELSE C(QSub(a.re, b.re), QSub(a.im, b.im))
VMul(a, b) == IF a.nan \/ b.nan THEN NaN
              ELSE IF a.re[2] = 0 \/ b.re[2] = 0
              THEN IF a.re[1] = 0 \/ b.re[1] = 0 THEN NaN
                   ELSE SignedInf(a.re[1] * b.re[1])
              ELSE IF a.im = QZero /\ b.im = QZero THEN R(QMul(a.re, b.re))
              ELSE C(QSub(QMul(a.re, b.re), QMul(a.im, b.im)),
                     QAdd(QMul(a.re, b.im), QMul(a.im, b.re)))
\* a / b.  Between reals the quotient by 0 is numpy's: nan for 0 / 0, and
\* inf with the sign of a otherwise (with a warning); between complex
\* numbers it is kept as NaN
VDiv(a, b) ==
    IF a.nan \/ b.nan THEN NaN
    ELSE IF a.re[2] = 0 \/ b.re[2] = 0
    THEN IF a.re[2] = 0 /\ b.re[2] = 0 THEN NaN
         ELSE IF b.re[2] = 0 THEN Zero
         ELSE SignedInf(IF b.re[1] < 0 THEN -a.re[1] ELSE a.re[1])
    ELSE IF a.im = QZero /\ b.im = QZero
    THEN IF b.re = QZero
         THEN IF a.re = QZero THEN NaN ELSE SignedInf(a.re[1])
         ELSE R(Q(a.re[1] * b.re[2], a.re[2] * b.re[1]))
    ELSE LET m == QAdd(QMul(b.re, b.re), QMul(b.im, b.im))
         IN  IF m = QZero THEN NaN
             ELSE LET inv == <<m[2], m[1]>>
                      p == VMul(a, C(b.re, QSub(QZero, b.im)))
                  IN  C(QMul(p.re, inv), QMul(p.im, inv))
\* numpy orders complex numbers by real part, then by imaginary part, and
\* every comparison with NaN is false
VLt(a, b) == /\ ~a.nan /\ ~b.nan
             /\ \/ IF a.re[2] = 0 /\ b.re[2] = 0 THEN a.re[1] < b.re[1]
                   ELSE QLt(a.re, b.re)
                \/ a.re = b.re /\ QLt(a.im, b.im)
VLe(a, b) == ~a.nan /\ ~b.nan /\ (a = b \/ VLt(a, b))

\* storing into a float array: the imaginary part is discarded
\* (numpy's ComplexWarning), NaN stays NaN
RealCast(v) == IF v.nan THEN v ELSE R(v.re)
\* a sequence given by a function constructor, as a tuple
Tup(f) == f \o << >>
RealCastRow(row) == Tup([j \in 1..Len(row) |-> RealCast(row[j])])

\* s[a:b] of the source, a and b 0-based and already clipped by Python
Slice(s, a, b) ==
    LET lo == IF a < 0 THEN 0 ELSE IF a > Len(s) THEN Len(s) ELSE a
        hi == IF b < 0 THEN 0 ELSE IF b > Len(s) THEN Len(s) ELSE b
    IN  IF hi <= lo THEN << >> ELSE SubSeq(s, lo + 1, hi)

Zeros(n) == Tup([j \in 1..n |-> Zero])
SetMin(S) == CHOOSE x \in S : \A y \in S : x <= y
SetMax(S) == CHOOSE x \in S : \A y \in S : y <= x

(***************************************************************************)
(* scipy.interpolate.interp1d(x, y, bounds_error=False,                    *)
(* fill_value=(below, above))(xnew), kind 'linear'.  The knots are sorted  *)
(* by x (a stable argsort, NaN last); each new point is located with       *)
(* searchsorted(side='left'), the index clipped to 1..n-1, and the value   *)
(* taken on the line through the two knots around it; the points before    *)
(* the first knot and after the last one get the fill values.              *)
(***************************************************************************)
KeyLess(a, b) == (~a.nan /\ b.nan) \/ VLt(a, b)

\* the position (1-based) that a stable sort by x gives to knot j
SortRank(x, j) ==
    1 + Cardinality({m \in 1..Len(x) :
                        KeyLess(x[m], x[j]) \/ (~KeyLess(x[j], x[m]) /\ m < j)})

\* the index of the knot that a stable sort by x puts at position r
ArgSort(x) ==
    LET rank == Tup([j \in 1..Len(x) |-> SortRank(x, j)])
    IN  Tup([r \in 1..Len(x) |-> CHOOSE j \in 1..Len(x) : rank[j] = r])

\* numpy.searchsorted(xs, v, side='left') on sorted xs
SearchSorted(xs, v) == Cardinality({m \in 1..Len(xs) : KeyLess(xs[m], v)})

Clip(n, lo, hi) == IF n > hi THEN hi ELSE IF n < lo THEN lo ELSE n

InterpPoint(xs, ys, below, above, v) ==
    LET n == Len(xs)
        k == Clip(SearchSorted(xs, v), 1, n - 1)
        slope == VDiv(VSub(ys[k + 1], ys[k]), VSub(xs[k + 1], xs[k]))
        line == VAdd(VMul(slope, VSub(v, xs[k])), ys[k])
    IN  IF VLt(xs[n], v) THEN above
        ELSE IF VLt(v, xs[1]) THEN below
        ELSE line

\* ok = FALSE is interp1d's ValueError: x and y of different lengths, or no
\* knot at all.  With a single knot the result is that knot's value at the
\* knot and the fill values elsewhere.
interp1d(x, y, below, above, xnew) ==
    IF Len(x) # Len(y) \/ Len(x) = 0
    THEN [ok |-> FALSE, val |-> << >>]
    ELSE LET ind == ArgSort(x)
             xs == Tup([r \in 1..Len(x) |-> x[ind[r]]])
             ys == Tup([r \in 1..Len(x) |-> y[ind[r]]])
         IN  [ok |-> TRUE,
              val |-> Tup([j \in 1..Len(xnew) |->
                         IF Len(x) = 1
                         THEN IF VLt(xs[1], xnew[j]) THEN above
                              ELSE IF VLt(xnew[j], xs[1]) THEN below
                              ELSE ys[1]
                         ELSE InterpPoint(xs, ys, below, above, xnew[j])])]

(***************************************************************************)
(* The depth grid and the 1-D velocity model (seispy.utils.DepModel).      *)
(* DepModel is not part of the file modelled here; it is taken from its    *)
(* description: its queries return, per depth sample of the                *)
(* elevation-adjusted grid (depth - elevation), a value that is 0 at the   *)
(* surface, grows with depth while the ray is real and carries a non-zero  *)
(* imaginary part from the depth where the ray becomes evanescent.         *)
(*                                                                         *)
(* A ray parameter is represented by the answer the model gives for it:    *)
(* k, the (0-based) index of the first evanescent depth sample (NDepth     *)
(* when the ray stays real over the grid), step, the growth of the         *)
(* travel time per depth sample, and im, the imaginary part the model      *)
(* returns below the turning depth.  The rays that stay real are taken     *)
(* with both growths, the evanescent ones with growth 1.                   *)
(***************************************************************************)
RayPs == {p \in [k : 0..NDepth, step : 1..2, im : 1..2] :
             /\ p.k = NDepth => p.im = 1
             /\ p.k < NDepth => p.step = 1}

YAxisRange == Tup([j \in 1..NDepth |-> RI(DepthStep * (j - 1))])
depths_elev(elevation) ==
    Tup([j \in 1..NDepth |-> RI(DepthStep * (j - 1) - elevation)])

\* a curve that grows by inc per sample and is evanescent from index k on
Curve(k, inc, im) ==
    Tup([j \in 1..NDepth |-> IF j - 1 < k THEN RI(inc * (j - 1))
                             ELSE CI(inc * (j - 1), im)])

tpds(srayp, prayp) ==
    Curve(IF srayp.k < prayp.k THEN srayp.k ELSE prayp.k,
          srayp.step,
          IF srayp.k < prayp.k THEN srayp.im ELSE prayp.im)

radius_s(rayp, phase) ==
    Curve(rayp.k, IF phase = "S" THEN rayp.step ELSE 2 * rayp.step, rayp.im)

raylength(rayp, phase) ==
    Curve(rayp.k, IF phase = "S" THEN rayp.step + 1 ELSE rayp.step + 2, rayp.im)

(***************************************************************************)
(* xps_tps_map: the curves of one ray parameter pair; with a non-zero      *)
(* elevation they are computed on depths_elev and interpolated onto the    *)
(* depth grid, NaN above the first sample and the last value below the     *)
(* last one.                                                               *)
(***************************************************************************)
OntoDepths(elevation, curve) ==
    IF elevation # 0
    THEN interp1d(depths_elev(elevation), curve, NaN, curve[NDepth], YAxisRange).val
    ELSE curve

xps_tps_map(elevation, srayp, prayp, is_raylen) ==
    [tps |-> OntoDepths(elevation, tpds(srayp, prayp)),
     x_s |-> OntoDepths(elevation, radius_s(prayp, "S")),
     x_p |-> OntoDepths(elevation, radius_s(prayp, "P")),
     raylength_s |-> IF is_raylen
                     THEN OntoDepths(elevation, raylength(srayp, "S")) ELSE << >>,
     raylength_p |-> IF is_raylen
                     THEN OntoDepths(elevation, raylength(prayp, "P")) ELSE << >>]

(***************************************************************************)
(* The station record (RFStation) and the state of the call in progress.   *)
(***************************************************************************)
VARIABLES
    rayp,        \* ray parameter of each event
    bazi,        \* back-azimuth of each event, in degrees
    datar,       \* amplitudes of the prime component, one row per event
    datat,       \* amplitudes of the transverse component
    stel,        \* station elevation, km
    shift,       \* pre-event window, in samples (shift / sampling)
    pc,          \* "idle", the function running, "returned" or "raised"
    error,       \* the exception that ended the call, "" when none
    args,        \* the parameters of the call
    i,           \* index of the per-event loop (0-based)
    tps,         \* travel-time rows (ev_num x depth), a float array
    Tpds_ref,    \* travel-time curve of the reference ray parameter
    Newdatar,    \* moveoutcorrect_ref: corrected rows
    EndIndex,    \* end index per event
    StopIndex,   \* np.where(np.imag(TempTpds) == 1)[0] of the last event
    Tpds,        \* time2depth: the travel-time rows it is given
    x_s,         \* psrf2depth: S-leg offsets, a float array
    x_p,         \* psrf2depth: P-leg offsets, a float array
    PS_RFdepth,  \* time2depth: depth profile rows
    pplat_s,     \* psrf_1D_raytracing: latitude of the S-leg conversion points
    pplon_s,     \* longitude of the S-leg conversion points
    pplat_p,     \* latitude of the P-leg conversion points
    pplon_p,     \* longitude of the P-leg conversion points
    raylength_s, \* path length of the S leg
    raylength_p, \* path length of the P leg
    comp,        \* prime component of the station: "R", "Q", "L" or "Z"
    only_r,      \* whether the station holds the prime component only
    event,       \* name of each event
    recorded_r,  \* history: the <<rayp, bazi>> each prime row was recorded for
    recorded_t,  \* history: the <<rayp, bazi>> each transverse row was recorded for
    ncalls,      \* number of calls of the station's methods made so far
    rf_corr,     \* RFStation.moveoutcorrect: returned prime array (<< >>: nothing)
    t_corr,      \* returned transverse array (<< >>: None)
    timecorrections, \* psrf_3D_migration: accumulated correction rows
    dep_range    \* the depth grid array the caller holds

piercing == <<pplat_s, pplon_s, pplat_p, pplon_p, raylength_s, raylength_p>>
vars == <<rayp, bazi, datar, datat, stel, shift, pc, error, args, i, tps,
          Tpds_ref, Newdatar, EndIndex, StopIndex, Tpds, x_s, x_p, PS_RFdepth,
          piercing, comp, only_r, event, recorded_r, recorded_t, ncalls,
          rf_corr, t_corr, timecorrections, dep_range>>
station == <<rayp, bazi, datar, datat, stel, shift>>
\* the rest of the station record, and the arrays of the 3-D functions
record == <<comp, only_r, event, recorded_r, recorded_t, ncalls>>
extra == <<record, rf_corr, t_corr, timecorrections, dep_range>>

Events == 1..EvNum
ZeroRows(n) == [e \in Events |-> Zeros(n)]

\* the amplitudes the traces are drawn from
Amp(seed, e, j) == RI((((seed + e) * j) % 7) - 3)
NoRayP == [k |-> NDepth, step |-> 1, im |-> 1]
NoField == [d |-> 1, dvp |-> 0, dvs |-> 0]
NoArgs == [fn |-> "", raypref |-> NoRayP, chan |-> "", srayp |-> "",
           lib |-> NoRayP, normalize |-> "", mod3d |-> NoField,
           invalid |-> {}, elevation |-> 0, replace |-> FALSE, key |-> ""]

\* np.arange(rflength) * sampling - shift, in samples
time_axis == Tup([j \in 1..RfLength |-> RI(j - 1 - shift)])

\* RFStation(data_path, only_r, prime_comp): the record after construction,
\* for the ray parameters, prime components and only_r flags given.  A
\* station built with only_r holds no transverse array (<< >>).
Construct(rayps, comps, flags) ==
    /\ rayp \in [Events -> rayps]
    /\ comp \in comps
    /\ only_r \in flags
    /\ \E seed \in 1..NSeeds :
          /\ bazi = [e \in Events |-> (90 * (seed + e)) % 180]
          /\ datar = [e \in Events |-> Tup([j \in 1..RfLength |-> Amp(seed, e, j)])]
          /\ datat = IF only_r THEN << >>
                     ELSE [e \in Events |->
                             Tup([j \in 1..RfLength |-> Amp(seed + 1, e, j)])]
    /\ stel \in 0..MaxElev
    /\ shift \in 1..MaxShift
    /\ pc = "idle"
    /\ error = ""
    /\ args = NoArgs
    /\ i = 0
    /\ tps = ZeroRows(NDepth)
    /\ Tpds_ref = Zeros(NDepth)
    /\ Newdatar = ZeroRows(RfLength)
    /\ EndIndex = [e \in Events |-> 0]
    /\ StopIndex = {}
    /\ Tpds = ZeroRows(NDepth)
    /\ x_s = ZeroRows(NDepth)
    /\ x_p = ZeroRows(NDepth)
    /\ PS_RFdepth = ZeroRows(NDepth)
    /\ pplat_s = ZeroRows(NDepth)
    /\ pplon_s = ZeroRows(NDepth)
    /\ pplat_p = ZeroRows(NDepth)
    /\ pplon_p = ZeroRows(NDepth)
    /\ raylength_s = ZeroRows(NDepth)
    /\ raylength_p = ZeroRows(NDepth)
    /\ event = [e \in Events |-> e]
    /\ recorded_r = [e \in Events |-> <<rayp[e], bazi[e]>>]
    /\ recorded_t = IF only_r THEN << >>
                    ELSE [e \in Events |-> <<rayp[e], bazi[e]>>]
    /\ ncalls = 0
    /\ rf_corr = << >>
    /\ t_corr = << >>
    /\ timecorrections = ZeroRows(NDepth)
    /\ dep_range = YAxisRange

\* the defaults of the constructor: prime component R, both components
Init == Construct(RayPs, {"R"}, {FALSE})

(***************************************************************************)
(* moveoutcorrect_ref                                                      *)
(***************************************************************************)
\* np.where(np.imag(arr) == 1)[0]: the indices (0-based) whose imaginary
\* part equals 1
ImagIsOne(arr) == {j \in 0..(Len(arr) - 1) :
                      ~arr[j + 1].nan /\ arr[j + 1].im = QI(1)}

\* the loop over the samples after the pre-event window: sample j's time
\* is looked up on the event's curve and carried to the reference curve;
\* the loop breaks at the first sample later than every curve sample.
\* Index index[0] - 1 is -1, the last sample, when index[0] is 0.
RECURSIVE MoveoutAxis(_, _, _, _, _)
MoveoutAxis(Newaxis, j, TempTpds, Tref, stop) ==
    IF j >= RfLength THEN Newaxis
    ELSE LET Refaxis == RI(j - shift)
             index == {d \in 0..(stop - 1) : VLe(Refaxis, TempTpds[d + 1])}
         IN  IF index = {} THEN Newaxis
             ELSE LET hi == SetMin(index) + 1
                      lo == IF hi = 1 THEN Len(TempTpds) ELSE hi - 1
                      Ratio == VDiv(VSub(Tref[hi], Tref[lo]),
                                    VSub(TempTpds[hi], TempTpds[lo]))
                      t == VAdd(Tref[lo], VMul(VSub(Refaxis, TempTpds[lo]), Ratio))
                  IN  MoveoutAxis(Append(Newaxis, t), j + 1, TempTpds, Tref, stop)

\* np.append(np.arange(-shift, 0, sampling), 0), then the mapped samples
Newaxis(TempTpds, Tref, stop) ==
    MoveoutAxis(Tup([j \in 1..(shift + 1) |-> RI(j - 1 - shift)]), shift + 1,
                TempTpds, Tref, stop)

\* moveoutcorrect_ref's splice without the padding to rflength
MoveoutSpliceNoPad(Tempdata, row, endidx) ==
    LET endIndice == {j \in 0..(Len(Tempdata) - 1) : IsNaN(Tempdata[j + 1])}
    IN  IF endIndice = {} THEN Tempdata
        ELSE Slice(Tempdata, 1, SetMin(endIndice)) \o Slice(row, endidx + 1, Len(row))

\* the tail of one event: interpolation onto the time axis, splice of the
\* original tail after the first undefined sample, padding to rflength
MoveoutSplice(Tempdata, row, endidx) ==
    LET endIndice == {j \in 0..(Len(Tempdata) - 1) : IsNaN(Tempdata[j + 1])}
        New_data == IF endIndice = {} THEN Tempdata
                    ELSE Slice(Tempdata, 1, SetMin(endIndice))
                           \o Slice(row, endidx + 1, Len(row))
    IN  IF Len(New_data) < RfLength
        THEN New_data \o Zeros(RfLength - Len(New_data))
        ELSE Slice(New_data, 0, RfLength)

IndexError == "TypeError: only integer scalar arrays can be converted to a scalar index"
Interp1dError == "ValueError: interp1d"
SequenceError == "ValueError: setting an array element with a sequence"

\* one pass of the loop of lines 360-386 for event e (1-based):
\* [error, EndIndex, row].  A non-empty StopIndex stays an array: the
\* assignment of line 366 takes it only when it has one element, and the
\* slice of line 370 does not take an array as its bound.
MoveoutRowOf(TempTpds, Tref, datarow, oldEndIndex) ==
    LET found == ImagIsOne(TempTpds)
    IN  IF Cardinality(found) > 1
        THEN [error |-> SequenceError, EndIndex |-> oldEndIndex, row |-> << >>]
        ELSE IF found # {}
        THEN [error |-> IndexError, EndIndex |-> SetMin(found) - 1, row |-> << >>]
        ELSE LET axis == Newaxis(TempTpds, Tref, NDepth)
                 endidx == Len(axis)
                 Tempdata == interp1d(axis, Slice(datarow, 0, endidx), NaN, NaN,
                                      time_axis)
             IN  IF ~Tempdata.ok
                 THEN [error |-> Interp1dError, EndIndex |-> NDepth - 1, row |-> << >>]
                 ELSE [error |-> "", EndIndex |-> NDepth - 1,
                       row |-> RealCastRow(MoveoutSplice(Tempdata.val, datarow, endidx))]

MoveoutRow(e, data) == MoveoutRowOf(tps[e], Tpds_ref, data[e], EndIndex[e])

\* lines 340-349: the channels moveoutcorrect_ref knows, and the array of
\* each; the prime array is stored under 'data' + comp.lower() (line 55)
Chans == {"r", "t", "z", "l"}
Lower(c) == CASE c = "R" -> "r" [] c = "Q" -> "q" [] c = "L" -> "l" [] c = "Z" -> "z"
HasData(chan) == IF chan = "t" THEN ~only_r ELSE chan = Lower(comp)
AttributeError == "AttributeError: 'RFStation' object has no attribute"
ChanData(chan) == IF chan = "t" THEN datat ELSE datar

\* lines 338-358: channel selection, the curves of every event stored into
\* the float array tps, and the reference curve
CallMoveout(raypref, chan) ==
    /\ pc = "idle"
    /\ args' = [NoArgs EXCEPT !.fn = "moveoutcorrect_ref", !.raypref = raypref,
                               !.chan = chan]
    /\ IF chan \notin Chans \/ ~HasData(chan)
       THEN /\ pc' = "raised"
            /\ error' = IF chan \notin Chans THEN "ValueError: chan"
                        ELSE AttributeError
            /\ UNCHANGED <<extra, tps, Tpds_ref, Newdatar, EndIndex>>
       ELSE /\ pc' = "moveout"
            /\ error' = ""
            /\ tps' = [e \in Events |->
                         RealCastRow(xps_tps_map(stel, rayp[e], rayp[e], FALSE).tps)]
            /\ Tpds_ref' = xps_tps_map(stel, raypref, raypref, FALSE).tps
            /\ Newdatar' = ZeroRows(RfLength)
            /\ EndIndex' = [e \in Events |-> 0]
    /\ i' = 0
    /\ UNCHANGED <<extra, station, StopIndex, Tpds, x_s, x_p, PS_RFdepth, piercing>>

MoveoutEvent ==
    /\ pc = "moveout"
    /\ i < EvNum
    /\ \E r \in {MoveoutRow(i + 1, ChanData(args.chan))} :
           /\ EndIndex' = [EndIndex EXCEPT ![i + 1] = r.EndIndex]
           /\ StopIndex' = ImagIsOne(tps[i + 1])
           /\ IF r.error # ""
              THEN /\ pc' = "raised"
                   /\ error' = r.error
                   /\ UNCHANGED <<extra, Newdatar, i>>
              ELSE /\ Newdatar' = [Newdatar EXCEPT ![i + 1] = r.row]
                   /\ i' = i + 1
                   /\ UNCHANGED <<extra, pc, error>>
    /\ UNCHANGED <<extra, station, args, tps, Tpds_ref, Tpds, x_s, x_p, PS_RFdepth,
                   piercing>>

MoveoutReturn ==
    /\ pc = "moveout"
    /\ i = EvNum
    /\ pc' = "returned"
    /\ UNCHANGED <<extra, station, error, args, i, tps, Tpds_ref, Newdatar, EndIndex,
                   StopIndex, Tpds, x_s, x_p, PS_RFdepth, piercing>>

\* the reference ray parameters tried: those of the events, and a ray
\* that stays real over the whole grid
RefRayPs == {rayp[e] : e \in Events}
              \cup {p \in RayPs : p.k = NDepth /\ p.step = 1}

NextMoveout ==
    \/ \E raypref \in RefRayPs, chan \in {"r", "t", "x"} : CallMoveout(raypref, chan)
    \/ MoveoutEvent
    \/ MoveoutReturn

SpecMoveout == Init /\ [][NextMoveout]_vars

(***************************************************************************)
(* RFStation.normalize                                                     *)
(***************************************************************************)
\* np.nanmax(np.abs(row)): NaN when every sample is NaN
NanMaxAbs(row) ==
    LET valid == {j \in 1..Len(row) : ~IsNaN(row[j])}
    IN  IF valid = {} THEN NaN
        ELSE LET m == CHOOSE j \in valid :
                          \A n \in valid : QLe(QAbs(row[n].re), QAbs(row[j].re))
             IN  R(QAbs(row[m].re))

RECURSIVE SumRows(_, _, _)
SumRows(data, e, j) ==
    IF e = 0 THEN Zero ELSE VAdd(data[e][j], SumRows(data, e - 1, j))

\* np.mean(data, axis=0)
MeanRow(data) ==
    Tup([j \in 1..RfLength |-> VDiv(SumRows(data, EvNum, j), RI(EvNum))])

DivRow(row, amp) == Tup([j \in 1..Len(row) |-> VDiv(row[j], amp)])

\* the rows of both components after normalize(method): every event by the
\* largest absolute amplitude of its own prime-component trace ('single'),
\* or every event by that of the mean prime-component trace ('average')
normalize(method) ==
    LET amp == NanMaxAbs(MeanRow(datar))
        maxamp == Tup([e \in Events |-> IF method = "single"
                                        THEN NanMaxAbs(datar[e]) ELSE amp])
    IN  [datar |-> Tup([e \in Events |-> DivRow(datar[e], maxamp[e])]),
         datat |-> IF only_r THEN datat
                   ELSE Tup([e \in Events |-> DivRow(datat[e], maxamp[e])])]

\* `if normalize: stadatar.normalize(method=normalize)`
Normalized(method) ==
    IF method = "" THEN [datar |-> datar, datat |-> datat] ELSE normalize(method)

(***************************************************************************)
(* time2depth                                                              *)
(***************************************************************************)
\* arr[idx] for a sorted index array: the elements at the indices of idx
\* (0-based), in order
RECURSIVE Take(_, _, _)
Take(arr, idx, j) ==
    IF j > Len(arr) THEN << >>
    ELSE (IF (j - 1) \in idx THEN <<arr[j]>> ELSE << >>) \o Take(arr, idx, j + 1)

\* every index of DepthAxis, NaN or not
ValueIndicesAll(DepthAxis) == 0..(Len(DepthAxis) - 1)

\* np.where(np.logical_not(np.isnan(DepthAxis)))[0]
ValueIndices(DepthAxis) ==
    {j \in 0..(Len(DepthAxis) - 1) : ~IsNaN(DepthAxis[j + 1])}

\* lines 632-649 for event e (1-based): [error, EndIndex, keep, row], keep
\* being the `continue` that leaves the event's row as it was allocated.
\* A non-empty StopIndex is an array, and line 639 slices the curve with it.
Time2DepthRow(e) ==
    LET TempTpds == Tpds[e]
        found == ImagIsOne(TempTpds)
    IN  IF found # {}
        THEN [error |-> IndexError, EndIndex |-> SetMin(found) - 1,
              keep |-> TRUE, row |-> << >>]
        ELSE LET DepthAxis == interp1d(TempTpds, YAxisRange, NaN, NaN, time_axis)
                 PS_RFTempAmps == datar[e]
                 valid == ValueIndices(DepthAxis.val)
             IN  IF ~DepthAxis.ok
                 THEN [error |-> Interp1dError, EndIndex |-> NDepth - 1,
                       keep |-> TRUE, row |-> << >>]
                 ELSE IF valid = {} \/ SetMax(valid) > Len(PS_RFTempAmps)
                 THEN [error |-> "", EndIndex |-> NDepth - 1,
                       keep |-> TRUE, row |-> << >>]
                 ELSE LET PS_RFAmps ==
                              interp1d(Take(DepthAxis.val, valid, 1),
                                       Take(PS_RFTempAmps, valid, 1),
                                       NaN, NaN, YAxisRange)
                      IN  IF ~PS_RFAmps.ok
                          THEN [error |-> Interp1dError, EndIndex |-> NDepth - 1,
                                keep |-> TRUE, row |-> << >>]
                          ELSE [error |-> "", EndIndex |-> NDepth - 1,
                                keep |-> FALSE, row |-> RealCastRow(PS_RFAmps.val)]

\* lines 627-630: the optional normalization and the allocation of the
\* results.  The rows given are, per event, the curve of the velocity
\* model as xps_tps_map returns it, or a row of NaN for the events of
\* undefined.
CallTime2Depth(undefined, method) ==
    /\ pc = "idle"
    /\ args' = [NoArgs EXCEPT !.fn = "time2depth", !.normalize = method]
    /\ Tpds' = [e \in Events |->
                  IF e \in undefined THEN Tup([j \in 1..NDepth |-> NaN])
                  ELSE xps_tps_map(stel, rayp[e], rayp[e], FALSE).tps]
    /\ \E data \in {Normalized(method)} :
          datar' = data.datar /\ datat' = data.datat
    /\ PS_RFdepth' = ZeroRows(NDepth)
    /\ EndIndex' = [e \in Events |-> 0]
    /\ pc' = "time2depth"
    /\ error' = ""
    /\ i' = 0
    /\ UNCHANGED <<extra, rayp, bazi, stel, shift, tps, Tpds_ref, Newdatar, StopIndex,
                   x_s, x_p, piercing>>

Time2DepthEvent ==
    /\ pc = "time2depth"
    /\ i < EvNum
    /\ \E r \in {Time2DepthRow(i + 1)} :
           /\ EndIndex' = [EndIndex EXCEPT ![i + 1] = r.EndIndex]
           /\ StopIndex' = ImagIsOne(Tpds[i + 1])
           /\ IF r.error # ""
              THEN /\ pc' = "raised"
                   /\ error' = r.error
                   /\ UNCHANGED <<extra, PS_RFdepth, i>>
              ELSE /\ PS_RFdepth' = IF r.keep THEN PS_RFdepth
                                    ELSE [PS_RFdepth EXCEPT ![i + 1] = r.row]
                   /\ i' = i + 1
                   /\ UNCHANGED <<extra, pc, error>>
    /\ UNCHANGED <<extra, station, args, tps, Tpds_ref, Newdatar, Tpds, x_s, x_p,
                   piercing>>

Time2DepthReturn ==
    /\ pc = "time2depth"
    /\ i = EvNum
    /\ pc' = "returned"
    /\ UNCHANGED <<extra, station, error, args, i, tps, Tpds_ref, Newdatar, EndIndex,
                   StopIndex, Tpds, x_s, x_p, PS_RFdepth, piercing>>

(***************************************************************************)
(* psrf2depth                                                              *)
(***************************************************************************)
\* the answers of the Ps ray-parameter library (get_psrayp, taken from its
\* description): a ray that stays real, and rays evanescent from index 1
LibRayPs == {p \in RayPs : p.step = 1 /\ p.k \in {1, NDepth}}

\* the ray parameter of the S leg of event e: the event's own, or the
\* library's answer
SRayP(e) == IF args.srayp = "lib" THEN args.lib ELSE rayp[e]

\* lines 436-456: the curves of every event stored into the float arrays
\* tps, x_s and x_p, then the call of time2depth up to its loop
CallPsrf2depth(srayp, lib, method) ==
    /\ pc = "idle"
    /\ args' = [NoArgs EXCEPT !.fn = "psrf2depth", !.srayp = srayp, !.lib = lib,
                               !.normalize = method]
    /\ i' = 0
    /\ IF srayp \notin {"none", "lib"}
       THEN /\ pc' = "raised"
            /\ error' = "TypeError: srayp"
            /\ UNCHANGED <<extra, datar, datat, tps, x_s, x_p, Tpds, PS_RFdepth, EndIndex>>
       ELSE \E m \in {Tup([e \in Events |->
                        xps_tps_map(stel, IF srayp = "lib" THEN lib ELSE rayp[e],
                                    rayp[e], FALSE)])} :
                /\ tps' = [e \in Events |-> RealCastRow(m[e].tps)]
                /\ x_s' = [e \in Events |-> RealCastRow(m[e].x_s)]
                /\ x_p' = [e \in Events |-> RealCastRow(m[e].x_p)]
                /\ Tpds' = [e \in Events |-> RealCastRow(m[e].tps)]
                /\ \E data \in {Normalized(method)} :
                      datar' = data.datar /\ datat' = data.datat
                /\ PS_RFdepth' = ZeroRows(NDepth)
                /\ EndIndex' = [e \in Events |-> 0]
                /\ pc' = "time2depth"
                /\ error' = ""
    /\ UNCHANGED <<extra, rayp, bazi, stel, shift, Tpds_ref, Newdatar, StopIndex,
                   piercing>>

NextDepth ==
    \/ \E undefined \in SUBSET Events, method \in {"single", "average", ""} :
          CallTime2Depth(undefined, method)
    \/ \E lib \in LibRayPs, method \in {"single", ""} :
          CallPsrf2depth("lib", lib, method)
    \/ \E srayp \in {"none", "bad"}, method \in {"single", ""} :
          CallPsrf2depth(srayp, NoRayP, method)
    \/ Time2DepthEvent
    \/ Time2DepthReturn

SpecDepth == Init /\ [][NextDepth]_vars

(***************************************************************************)
(* psrf_1D_raytracing                                                      *)
(***************************************************************************)
\* every sample set to NaN when one has the imaginary part 1
_imag2nan_all(arr) ==
    IF ImagIsOne(arr) = {} THEN arr ELSE Tup([j \in 1..Len(arr) |-> NaN])

\* _imag2nan: the samples from the first one whose imaginary part equals 1
\* are set to NaN
_imag2nan(arr) ==
    LET found == ImagIsOne(arr)
    IN  IF found = {} THEN arr
        ELSE Tup([j \in 1..Len(arr) |-> IF j - 1 >= SetMin(found) THEN NaN
                                        ELSE arr[j]])

\* the station's latitude and longitude, in degrees
stla == RI(10)
stlo == RI(20)

\* seispy.geo.rad2deg and latlon_from are not part of the file modelled
\* here; they are taken from their description: the offset scaled to
\* degrees (180 / pi, with 22 / 7 for pi) and carried from the station
\* along the back-azimuth, which is 0 (north) or 90 (east) degrees here.
\* An offset of 0 gives the station's own coordinates.
rad2deg(x) == Tup([j \in 1..Len(x) |-> VMul(x[j], R(Q(1260, 22)))])

latlon_from(lat, lon, az, delta) ==
    [lat |-> Tup([j \in 1..Len(delta) |->
                    IF IsNaN(delta[j]) THEN NaN
                    ELSE IF az = 0 THEN VAdd(lat, delta[j]) ELSE lat]),
     lon |-> Tup([j \in 1..Len(delta) |->
                    IF IsNaN(delta[j]) THEN NaN
                    ELSE IF az = 0 THEN lon ELSE VAdd(lon, delta[j])])]

\* lines 510-511: _imag2nan is applied to the offsets in the library mode
Offsets(x) == IF args.srayp = "lib" THEN _imag2nan(x) ELSE x

\* lines 483-492 and 514-515: the allocation of the results and the choice
\* of the loop
CallRay1D(srayp, lib) ==
    /\ pc = "idle"
    /\ args' = [NoArgs EXCEPT !.fn = "psrf_1D_raytracing", !.srayp = srayp,
                               !.lib = lib]
    /\ pplat_s' = ZeroRows(NDepth)
    /\ pplon_s' = ZeroRows(NDepth)
    /\ pplat_p' = ZeroRows(NDepth)
    /\ pplon_p' = ZeroRows(NDepth)
    /\ raylength_s' = ZeroRows(NDepth)
    /\ raylength_p' = ZeroRows(NDepth)
    /\ tps' = ZeroRows(NDepth)
    /\ i' = 0
    /\ IF srayp \notin {"none", "lib"}
       THEN pc' = "raised" /\ error' = "TypeError: srayp"
       ELSE pc' = "ray1d" /\ error' = ""
    /\ UNCHANGED <<extra, station, Tpds_ref, Newdatar, EndIndex, StopIndex, Tpds, x_s,
                   x_p, PS_RFdepth>>

\* one pass of the loops of lines 493-498 and 506-513: the curves of the
\* event, the conversion points of both legs, and the rows stored into the
\* seven float arrays
Ray1DEvent ==
    /\ pc = "ray1d"
    /\ i < EvNum
    /\ \E m \in {xps_tps_map(stel, SRayP(i + 1), rayp[i + 1], TRUE)} :
       \E s \in {latlon_from(stla, stlo, bazi[i + 1], rad2deg(Offsets(m.x_s)))},
          p \in {latlon_from(stla, stlo, bazi[i + 1], rad2deg(Offsets(m.x_p)))} :
           /\ tps' = [tps EXCEPT ![i + 1] = RealCastRow(m.tps)]
           /\ raylength_s' = [raylength_s EXCEPT ![i + 1] = RealCastRow(m.raylength_s)]
           /\ raylength_p' = [raylength_p EXCEPT ![i + 1] = RealCastRow(m.raylength_p)]
           /\ pplat_s' = [pplat_s EXCEPT ![i + 1] = RealCastRow(s.lat)]
           /\ pplon_s' = [pplon_s EXCEPT ![i + 1] = RealCastRow(s.lon)]
           /\ pplat_p' = [pplat_p EXCEPT ![i + 1] = RealCastRow(p.lat)]
           /\ pplon_p' = [pplon_p EXCEPT ![i + 1] = RealCastRow(p.lon)]
    /\ i' = i + 1
    /\ UNCHANGED <<extra, station, pc, error, args, Tpds_ref, Newdatar, EndIndex,
                   StopIndex, Tpds, x_s, x_p, PS_RFdepth>>

Ray1DReturn ==
    /\ pc = "ray1d"
    /\ i = EvNum
    /\ pc' = "returned"
    /\ UNCHANGED <<extra, station, error, args, i, tps, Tpds_ref, Newdatar, EndIndex,
                   StopIndex, Tpds, x_s, x_p, PS_RFdepth, piercing>>

NextRay ==
    \/ \E lib \in LibRayPs : CallRay1D("lib", lib)
    \/ \E srayp \in {"none", "bad"} : CallRay1D(srayp, NoRayP)
    \/ Ray1DEvent
    \/ Ray1DReturn

SpecRay == Init /\ [][NextRay]_vars

(***************************************************************************)
(* psrf_3D_migration (lines 610-623), called as in psrf_3D_timecorrect on  *)
(* the arrays psrf_1D_raytracing returned.  Mod3DPerturbation is not part  *)
(* of this file: its background velocities cvs and cvp are one value per   *)
(* depth sample, and its fields dvs and dvp are zero except at one depth   *)
(* sample; at a conversion point without coordinates they answer NaN.      *)
(***************************************************************************)
cvs == Tup([j \in 1..NDepth |-> RI(1)])
cvp == Tup([j \in 1..NDepth |-> RI(2)])
Fields == {NoField} \cup
          {[d |-> d, dvp |-> v[1], dvs |-> v[2]] :
               d \in 1..NDepth, v \in {<<1, 1>>, <<-1, 0>>, <<0, -1>>}}

interpdv(value, d, lat, lon) ==
    Tup([j \in 1..NDepth |-> IF IsNaN(lat[j]) \/ IsNaN(lon[j]) THEN NaN
                             ELSE IF j = d THEN RI(value) ELSE Zero])
interpdvp(mod3d, lat, lon) == interpdv(mod3d.dvp, mod3d.d, lat, lon)
interpdvs(mod3d, lat, lon) == interpdv(mod3d.dvs, mod3d.d, lat, lon)

\* the ray lengths as the caller passes them: the samples of invalid hold NaN
PassedLength(arr, invalid) ==
    [e \in Events |-> Tup([j \in 1..NDepth |-> IF j \in invalid THEN NaN
                                               ELSE arr[e][j]])]

\* line 620
Tmpds(dls, dlp, dvs, dvp) ==
    Tup([j \in 1..NDepth |->
           VSub(VSub(VDiv(dls[j], VMul(cvs[j], VAdd(RI(1), dvs[j]))),
                     VDiv(dls[j], cvs[j])),
                VSub(VDiv(dlp[j], VMul(cvp[j], VAdd(RI(1), dvp[j]))),
                     VDiv(dlp[j], cvp[j])))])

\* line 621 without its assignment
KeepNaN(tmpds) == tmpds

\* line 621: tmpds[np.isnan(tmpds)] = 0
NanToZero(tmpds) ==
    Tup([j \in 1..Len(tmpds) |-> IF IsNaN(tmpds[j]) THEN Zero ELSE tmpds[j]])

\* np.cumsum
RECURSIVE SumTo(_, _)
SumTo(row, j) == IF j = 1 THEN row[1] ELSE VAdd(SumTo(row, j - 1), row[j])
CumSum(row) == Tup([j \in 1..Len(row) |-> SumTo(row, j)])

\* lines 613-622 for event e
TimeCorrection(e, mod3d, dls, dlp) ==
    CumSum(NanToZero(Tmpds(dls, dlp,
                           interpdvs(mod3d, pplat_s[e], pplon_s[e]),
                           interpdvp(mod3d, pplat_p[e], pplon_p[e]))))

AddRows(a, b) ==
    [e \in Events |-> Tup([j \in 1..NDepth |-> VAdd(a[e][j], b[e][j])])]

\* the whole function; its result is the array time2depth is given
Migration(mod3d, invalid) ==
    /\ pc = "returned"
    /\ args.fn = "psrf_1D_raytracing"
    /\ args' = [args EXCEPT !.fn = "psrf_3D_migration", !.mod3d = mod3d,
                            !.invalid = invalid]
    /\ \E c \in {[e \in Events |->
                    TimeCorrection(e, mod3d,
                                   PassedLength(raylength_s, invalid)[e],
                                   PassedLength(raylength_p, invalid)[e])]} :
           /\ timecorrections' = c
           /\ Tpds' = AddRows(tps, c)
    /\ pc' = "migrated"
    /\ UNCHANGED <<station, record, rf_corr, t_corr, dep_range, error, i,
                   tps, Tpds_ref, Newdatar, EndIndex, StopIndex, x_s, x_p, PS_RFdepth,
                   piercing>>

InvalidSamples == {{}, {NDepth}}

NextMigration ==
    \/ \E lib \in LibRayPs : CallRay1D("lib", lib)
    \/ CallRay1D("none", NoRayP)
    \/ Ray1DEvent
    \/ Ray1DReturn
    \/ \E mod3d \in Fields, invalid \in InvalidSamples : Migration(mod3d, invalid)

SpecMigration == Init /\ [][NextMigration]_vars

(***************************************************************************)
(* The methods of RFStation that change the record: sort (lines 140-152),  *)
(* normalize (104-123) and moveoutcorrect (154-193), called one after the  *)
(* other on a station built with any prime component.  Each method is one  *)
(* step; pc tells how the last call ended.                                  *)
(***************************************************************************)
PrimeComps == {"R", "Q", "L", "Z"}
InitStation == Construct({p \in RayPs : p.k >= NDepth - 1}, PrimeComps, BOOLEAN)

MethodEnabled == pc \in {"idle", "returned", "raised"} /\ ncalls < MaxCalls

\* the value of a ray parameter: the sooner the ray turns, the larger
RaypValue(p) == IF p.k = NDepth THEN 2 + p.step
                ELSE 4 * (NDepth - p.k) + 1 + p.im
SortKeys == {"bazi", "rayp", "event"}
KeyArray(key) == CASE key = "bazi" -> bazi
                   [] key = "rayp" -> [e \in Events |-> RaypValue(rayp[e])]
                   [] key = "event" -> event

\* np.argsort: an index array that puts the keys in order; the order of
\* equal keys is not defined by the default sort
argsort(keys) ==
    {idx \in [Events -> Events] :
        /\ \A a, b \in Events : a # b => idx[a] # idx[b]
        /\ \A a, b \in Events : a < b => keys[idx[a]] <= keys[idx[b]]}

\* arr[idx] for the arrays of dtype['names'] (lines 148-149)
Permuted(arr, idx) == [e \in Events |-> arr[idx[e]]]
\* sort without the re-indexing of the amplitude rows
KeptRows(rows, idx) == rows
\* data[idx] for the amplitude arrays (lines 150-152)
PermutedRows(rows, idx) == [e \in Events |-> rows[idx[e]]]

sort(key) ==
    /\ MethodEnabled
    /\ args' = [NoArgs EXCEPT !.fn = "RFStation.sort", !.key = key]
    /\ \E idx \in argsort(KeyArray(key)) :
           /\ event' = Permuted(event, idx)
           /\ bazi' = Permuted(bazi, idx)
           /\ rayp' = Permuted(rayp, idx)
           /\ datar' = PermutedRows(datar, idx)
           /\ recorded_r' = PermutedRows(recorded_r, idx)
           /\ IF ~only_r
              THEN /\ datat' = PermutedRows(datat, idx)
                   /\ recorded_t' = PermutedRows(recorded_t, idx)
              ELSE UNCHANGED <<datat, recorded_t>>
    /\ pc' = "returned"
    /\ error' = ""
    /\ ncalls' = ncalls + 1
    /\ UNCHANGED <<stel, shift, comp, only_r, rf_corr, t_corr, timecorrections,
                   dep_range, i, tps, Tpds_ref, Newdatar, EndIndex, StopIndex,
                   Tpds, x_s, x_p, PS_RFdepth, piercing>>

\* RFStation.normalize(method)
Normalize(method) ==
    /\ MethodEnabled
    /\ args' = [NoArgs EXCEPT !.fn = "RFStation.normalize", !.normalize = method]
    /\ IF method \notin {"single", "average"}
       THEN /\ pc' = "raised"
            /\ error' = "ValueError: method"
            /\ UNCHANGED <<datar, datat>>
       ELSE /\ pc' = "returned"
            /\ error' = ""
            /\ \E data \in {normalize(method)} :
                   datar' = data.datar /\ datat' = data.datat
    /\ ncalls' = ncalls + 1
    /\ UNCHANGED <<rayp, bazi, stel, shift, comp, only_r, event, recorded_r,
                   recorded_t, rf_corr, t_corr, timecorrections, dep_range, i,
                   tps, Tpds_ref, Newdatar, EndIndex, StopIndex, Tpds, x_s, x_p,
                   PS_RFdepth, piercing>>

\* moveoutcorrect_ref(self, skm2srad(ref_rayp), dep_range, chan): the
\* result of its loop for every event
MoveoutRows(raypref, chan) ==
    Tup([e \in Events |->
           MoveoutRowOf(RealCastRow(xps_tps_map(stel, rayp[e], rayp[e], FALSE).tps),
                        xps_tps_map(stel, raypref, raypref, FALSE).tps,
                        ChanData(chan)[e], 0)])
\* the exception of the first event that fails, "" when none does
FirstError(rows) ==
    LET bad == {e \in Events : rows[e].error # ""}
    IN  IF bad = {} THEN "" ELSE rows[SetMin(bad)].error
Newdata(rows) == [e \in Events |-> rows[e].row]

\* lines 179-186: the channel is chosen by the key the prime array is
\* stored under; no branch assigns chan for the key 'dataq'
PrimeChan == IF comp = "R" THEN "r"
             ELSE IF comp = "Z" THEN "z"
             ELSE IF comp = "L" THEN "l"
             ELSE "unbound"
UnboundLocalError == "UnboundLocalError: local variable 'chan' referenced before assignment"

\* RFStation.moveoutcorrect(ref_rayp, dep_range, velmod, replace)
moveoutcorrect(ref_rayp, replace) ==
    /\ MethodEnabled
    /\ args' = [NoArgs EXCEPT !.fn = "RFStation.moveoutcorrect",
                               !.raypref = ref_rayp, !.replace = replace]
    /\ ncalls' = ncalls + 1
    /\ \E t \in {IF only_r THEN << >> ELSE MoveoutRows(ref_rayp, "t")},
          chan \in {PrimeChan} :
       \E e1 \in {IF only_r THEN "" ELSE FirstError(t)} :
          IF e1 # "" \/ chan = "unbound"
          THEN /\ pc' = "raised"
               /\ error' = IF e1 # "" THEN e1 ELSE UnboundLocalError
               /\ UNCHANGED <<datar, datat, rf_corr, t_corr>>
          ELSE \E r \in {MoveoutRows(ref_rayp, chan)} :
               \E e2 \in {FirstError(r)} :
                  IF e2 # ""
                  THEN /\ pc' = "raised"
                       /\ error' = e2
                       /\ UNCHANGED <<datar, datat, rf_corr, t_corr>>
                  ELSE /\ pc' = "returned"
                       /\ error' = ""
                       /\ IF replace
                          THEN /\ datar' = Newdata(r)
                               /\ datat' = IF only_r THEN datat ELSE Newdata(t)
                               /\ rf_corr' = << >>
                               /\ t_corr' = << >>
                          ELSE /\ rf_corr' = Newdata(r)
                               /\ t_corr' = IF only_r THEN << >> ELSE Newdata(t)
                               /\ UNCHANGED <<datar, datat>>
    /\ UNCHANGED <<rayp, bazi, stel, shift, comp, only_r, event, recorded_r,
                   recorded_t, timecorrections, dep_range, i, tps, Tpds_ref,
                   Newdatar, EndIndex, StopIndex, Tpds, x_s, x_p, PS_RFdepth,
                   piercing>>

\* the reference ray parameter: a ray that stays real over the grid
RefRayP == [k |-> NDepth, step |-> 1, im |-> 1]

NextStation ==
    \/ \E key \in SortKeys : sort(key)
    \/ \E method \in {"single", "average", "max"} : Normalize(method)
    \/ \E replace \in BOOLEAN : moveoutcorrect(RefRayP, replace)

SpecStation == InitStation /\ [][NextStation]_vars

(***************************************************************************)
(* psrf_3D_raytracing (lines 519-599), called with a float depth grid.     *)
(* seispy.geo (srad2skm, km2deg, tand, asind) and the velocity model of    *)
(* Mod3DPerturbation are not part of this file.  The model's velocities    *)
(* are uniform; interpn answers NaN at a point without coordinates.        *)
(***************************************************************************)
model_vs == R(Q(1, 5))
model_vp == R(Q(4, 15))
interpn(v, lat, lon) == IF IsNaN(lat) \/ IsNaN(lon) THEN NaN ELSE v

\* the ray parameter in s/km
srad2skm(p) == RI(RaypValue(p))
\* degrees of arc of an offset in km
km2deg(x) == rad2deg(Tup([j \in 1..Len(x) |-> VDiv(x[j], RI(6371))]))

\* the square root of a rational, rounded down to the denominator's grid;
\* exact when the rational is a square
ISqrt(n) == CHOOSE r \in 0..n : r * r <= n /\ n < (r + 1) * (r + 1)
RSqrt(q) == Q(ISqrt(q[1] * q[2]), q[2])
\* np.sqrt(1 - x ** 2): NaN (with a warning) when x exceeds 1
CosAsin(x) == IF IsNaN(x) \/ IsInf(x) THEN NaN
              ELSE IF QLt(QI(1), QAbs(x.re)) THEN NaN
              ELSE R(RSqrt(QSub(QI(1), QMul(x.re, x.re))))
\* tand(asind(x))
TanAsin(x) == VDiv(x, CosAsin(x))

\* lines 541-542: the grid after `YAxisRange -= elevation`, and its step
Shifted(grid, elevation) ==
    Tup([j \in 1..Len(grid) |-> VSub(grid[j], RI(elevation))])
Mean_diff(grid) == VDiv(VSub(grid[Len(grid)], grid[1]), RI(Len(grid) - 1))

\* lines 575-592 for one leg: the samples up to index j are traced, the
\* velocity at sample j carries the offset to sample j + 1
RECURSIVE TraceLeg(_, _, _, _, _, _)
TraceLeg(leg, j, v, p, baz, ddepth) ==
    IF j = NDepth THEN [leg EXCEPT !.v = Append(leg.v, Zero)]
    ELSE LET vj == interpn(v, leg.lat[j], leg.lon[j])
             x == VAdd(VMul(ddepth, TanAsin(VMul(vj, p))), leg.x[j])
             pp == latlon_from(stla, stlo, baz, km2deg(<<x>>))
         IN  TraceLeg([x |-> Append(leg.x, x), lat |-> Append(leg.lat, pp.lat[1]),
                       lon |-> Append(leg.lon, pp.lon[1]), v |-> Append(leg.v, vj)],
                      j + 1, v, p, baz, ddepth)
\* lines 571-574: both legs start at the station with no offset
LegStart == [x |-> <<Zero>>, lat |-> <<stla>>, lon |-> <<stlo>>, v |-> << >>]
\* lines 575-592 for the S leg of event e: line 589 uses rayps[i]
SLeg(e, ddepth) ==
    TraceLeg(LegStart, 1, model_vs, srad2skm(rayp[e]), bazi[e], ddepth)
PLeg(e, ddepth) ==
    TraceLeg(LegStart, 1, model_vp, srad2skm(rayp[e]), bazi[e], ddepth)

\* lines 594-596, with p / R taken as the ray parameter in s/km at every
\* depth: sqrt((R / v) ** 2 - p ** 2) * (ddepth / R) is
\* ddepth * sqrt(1 - (v * p) ** 2) / v, and the last sample divides by the
\* zero the velocity arrays are left with
tps_corr(vs, vp, srayps, prayp, ddepth) ==
    CumSum(Tup([j \in 1..NDepth |->
                  VMul(ddepth,
                       VSub(VDiv(CosAsin(VMul(vs[j], srayps)), vs[j]),
                            VDiv(CosAsin(VMul(vp[j], prayp)), vp[j])))]))

\* interp1d(x, y)(xnew) raises ValueError for a value of xnew outside of x
OutOfBounds(x, xnew) ==
    \E j \in 1..Len(xnew) :
        \/ \A k \in 1..Len(x) : VLt(xnew[j], x[k])
        \/ \A k \in 1..Len(x) : VLt(x[k], xnew[j])
BoundsError == "ValueError: A value in x_new is outside the interpolation range"

\* lines 535-564: the grid the caller passed is shifted in place, the
\* arrays are allocated, and srayp is checked
CallRay3D(srayp, lib, elevation) ==
    /\ pc = "idle"
    /\ args' = [NoArgs EXCEPT !.fn = "psrf_3D_raytracing", !.srayp = srayp,
                               !.lib = lib, !.elevation = elevation]
    /\ dep_range' = Shifted(dep_range, elevation)
    /\ pplat_s' = ZeroRows(NDepth)
    /\ pplon_s' = ZeroRows(NDepth)
    /\ pplat_p' = ZeroRows(NDepth)
    /\ pplon_p' = ZeroRows(NDepth)
    /\ x_s' = ZeroRows(NDepth)
    /\ x_p' = ZeroRows(NDepth)
    /\ tps' = ZeroRows(NDepth)
    /\ i' = 0
    /\ IF srayp \notin {"none", "lib"}
       THEN pc' = "raised" /\ error' = "TypeError: srayp"
       ELSE pc' = "ray3d" /\ error' = ""
    /\ UNCHANGED <<station, record, rf_corr, t_corr, timecorrections, Tpds_ref,
                   Newdatar, EndIndex, StopIndex, Tpds, PS_RFdepth, raylength_s,
                   raylength_p>>

\* one pass of the loop of lines 566-598.  The copy of line 540 is the grid
\* as it was passed, YAxisRange; dep_range is the caller's array, shifted.
Ray3DEvent ==
    /\ pc = "ray3d"
    /\ i < EvNum
    /\ \E ddepth \in {Mean_diff(dep_range)} :
       \E s \in {SLeg(i + 1, ddepth)}, p \in {PLeg(i + 1, ddepth)} :
          /\ x_s' = [x_s EXCEPT ![i + 1] = s.x]
          /\ x_p' = [x_p EXCEPT ![i + 1] = p.x]
          /\ pplat_s' = [pplat_s EXCEPT ![i + 1] = s.lat]
          /\ pplon_s' = [pplon_s EXCEPT ![i + 1] = s.lon]
          /\ pplat_p' = [pplat_p EXCEPT ![i + 1] = p.lat]
          /\ pplon_p' = [pplon_p EXCEPT ![i + 1] = p.lon]
          /\ IF args.elevation = 0
             THEN UNCHANGED <<tps, pc, error>>
             ELSE IF OutOfBounds(dep_range, YAxisRange)
             THEN /\ pc' = "raised"
                  /\ error' = BoundsError
                  /\ UNCHANGED tps
             ELSE /\ tps' = [tps EXCEPT ![i + 1] =
                               interp1d(dep_range,
                                        tps_corr(s.v, p.v, srad2skm(SRayP(i + 1)),
                                                 srad2skm(rayp[i + 1]), ddepth),
                                        NaN, NaN, YAxisRange).val]
                  /\ UNCHANGED <<pc, error>>
    /\ i' = i + 1
    /\ UNCHANGED <<station, record, rf_corr, t_corr, timecorrections, dep_range,
                   args, Tpds_ref, Newdatar, EndIndex, StopIndex, Tpds,
                   PS_RFdepth, raylength_s, raylength_p>>

Ray3DReturn ==
    /\ pc = "ray3d"
    /\ i = EvNum
    /\ pc' = "returned"
    /\ UNCHANGED <<extra, station, error, args, i, tps, Tpds_ref, Newdatar,
                   EndIndex, StopIndex, Tpds, x_s, x_p, PS_RFdepth, piercing>>

Elevations == 0..MaxElev

NextRay3D ==
    \/ \E lib \in LibRayPs, elevation \in Elevations : CallRay3D("lib", lib, elevation)
    \/ \E srayp \in {"none", "bad"}, elevation \in Elevations :
           CallRay3D(srayp, NoRayP, elevation)
    \/ Ray3DEvent
    \/ Ray3DReturn

SpecRay3D == Init /\ [][NextRay3D]_vars

(***************************************************************************)
(* Every function of the module, called on the station.                    *)
(***************************************************************************)
Next == NextMoveout \/ NextDepth \/ NextRay \/ NextMigration \/ NextStation \/ NextRay3D

Spec == Init /\ [][Next]_vars

(***************************************************************************)
(* Properties.                                                             *)
(***************************************************************************)
\* the first index (0-based) of a curve whose value has a non-zero
\* imaginary part, Len(curve) when there is none
FirstNonReal(curve) ==
    LET S == {j \in 0..(Len(curve) - 1) : ~IsNaN(curve[j + 1]) /\ ~IsReal(curve[j + 1])}
    IN  IF S = {} THEN Len(curve) ELSE SetMin(S)

\* the curves xps_tps_map returns for event e in the running call
EventMap(e) == xps_tps_map(stel, SRayP(e), rayp[e], FALSE)

\* the exceptions raised before the per-event loop, by a wrong argument
ArgumentErrors == {"ValueError: chan", "TypeError: srayp"}

\* the number of events whose pass of the loop has run, the one that
\* raised included
Processed == IF pc = "raised"
             THEN IF error \in ArgumentErrors THEN 0 ELSE i + 1
             ELSE i

\* C1: in time2depth, the indices found by the evanescence test of an
\* event's curve start at the first index whose value has a non-zero
\* imaginary part, and none is found exactly when the curve has no such
\* value.
C1_Counterexample ==
    (args.fn = "time2depth" /\ Processed >= 1) =>
        LET curve == Tpds[Processed]
        IN  /\ (StopIndex = {}) <=> (FirstNonReal(curve) = NDepth)
            /\ StopIndex # {} => SetMin(StopIndex) = FirstNonReal(curve)

\* C2: after psrf2depth has stored the curves of the events, every sample
\* of tps, x_s and x_p at which the velocity model's value is not real is
\* NaN.
C2_Counterexample ==
    (args.fn = "psrf2depth" /\ pc \in {"time2depth", "returned"}) =>
        \A e \in Events : \A j \in 1..NDepth :
            /\ ~IsReal(EventMap(e).tps[j]) => IsNaN(tps[e][j])
            /\ ~IsReal(EventMap(e).x_s[j]) => IsNaN(x_s[e][j])
            /\ ~IsReal(EventMap(e).x_p[j]) => IsNaN(x_p[e][j])

C4_Counterexample ==
    (args.fn = "moveoutcorrect_ref" /\ pc = "returned") =>
        \A e \in Events :
            (args.raypref = rayp[e] /\ FirstNonReal(EventMap(e).tps) = NDepth) =>
                Newdatar[e] = ChanData(args.chan)[e]

\* C5: when moveoutcorrect_ref returns, with the rays of the reference and
\* of the event real over the whole depth grid, the samples of the
\* pre-event window of the event are those of the input row.
C5_Counterexample ==
    (args.fn = "moveoutcorrect_ref" /\ pc = "returned"
        /\ FirstNonReal(Tpds_ref) = NDepth) =>
        \A e \in Events :
            FirstNonReal(EventMap(e).tps) = NDepth =>
                \A j \in 1..shift : Newdatar[e][j] = ChanData(args.chan)[e][j]

\* C6: when moveoutcorrect_ref returns, the end index of every event is the
\* index before the first evanescent sample of its curve, the last index of
\* the grid when there is none.
C6_Counterexample ==
    (args.fn = "moveoutcorrect_ref" /\ pc = "returned") =>
        \A e \in Events : EndIndex[e] = FirstNonReal(EventMap(e).tps) - 1

\* the depth of every time sample of event e, as time2depth interpolates it
\* from the row it is given
DepthAxisOf(e) == interp1d(Tpds[e], YAxisRange, NaN, NaN, time_axis).val

\* C7: in time2depth, an event none of whose time samples has a defined
\* depth keeps the all-zero row it was allocated, and it does not end the
\* call: the loop is left by an exception only at an event whose row has a
\* sample with imaginary part 1.
C7_EmptyValidSetZeroRow ==
    /\ (args.fn \in {"time2depth", "psrf2depth"} /\ pc \in {"time2depth", "returned"}) =>
          \A e \in 1..i :
              (\A j \in 1..RfLength : IsNaN(DepthAxisOf(e)[j])) =>
                  PS_RFdepth[e] = Zeros(NDepth)
    /\ (pc = "raised" /\ error \notin ArgumentErrors) =>
          ImagIsOne(Tpds[i + 1]) # {}

\* time2depth has returned; no time sample of the first event had a
\* defined depth, and the second event was converted to a non-zero row
C7_Witness ==
    /\ args.fn = "time2depth"
    /\ pc = "returned"
    /\ \A j \in 1..RfLength : IsNaN(DepthAxisOf(1)[j])
    /\ PS_RFdepth[1] = Zeros(NDepth)
    /\ PS_RFdepth[2] # Zeros(NDepth)

\* C8: an event whose row given to time2depth is not real at depth index 0
\* does not raise, and has an all-zero row when time2depth returns.
C8_Counterexample ==
    args.fn = "time2depth" =>
        \A e \in Events :
            FirstNonReal(Tpds[e]) = 0 =>
                /\ ~(pc = "raised" /\ Processed = e)
                /\ pc = "returned" => PS_RFdepth[e] = Zeros(NDepth)

\* C9: time2depth and psrf2depth raise only for a wrong argument, before
\* the per-event loop.
C9_Counterexample == pc = "raised" => error \in ArgumentErrors

\* the conversion points of event e at depth index 0 are the station
AtStation(e) ==
    /\ pplat_s[e][1] = stla /\ pplon_s[e][1] = stlo
    /\ pplat_p[e][1] = stla /\ pplon_p[e][1] = stlo

\* C10 (as stated): the conversion points that psrf_1D_raytracing has
\* computed are, at depth index 0, the station, for every event and every
\* station elevation.
C10_Counterexample ==
    args.fn = "psrf_1D_raytracing" => \A e \in 1..i : AtStation(e)

\* C10 (amended): for a station elevation of 0 and an event whose ray is
\* not evanescent at depth index 0, the conversion points that
\* psrf_1D_raytracing has computed are, at depth index 0, the station.
C10_StationAtDepthZero ==
    (args.fn = "psrf_1D_raytracing" /\ stel = 0) =>
        \A e \in 1..i :
            (FirstNonReal(EventMap(e).x_s) > 0 /\ FirstNonReal(EventMap(e).x_p) > 0) =>
                AtStation(e)

\* psrf_1D_raytracing has returned in the library mode, for a station at
\* elevation 0 and an event whose ray is evanescent below depth index 0
C10_Witness ==
    /\ args.fn = "psrf_1D_raytracing"
    /\ args.srayp = "lib"
    /\ pc = "returned"
    /\ stel = 0
    /\ \E e \in Events : /\ FirstNonReal(EventMap(e).x_s) \in 1..(NDepth - 1)
                         /\ IsNaN(pplat_s[e][NDepth])
                         /\ AtStation(e)

\* the perturbations the 3-D model returned for event e
ReturnedDv(e) ==
    [dvs |-> interpdvs(args.mod3d, pplat_s[e], pplon_s[e]),
     dvp |-> interpdvp(args.mod3d, pplat_p[e], pplon_p[e])]
AllZeroDv ==
    \A e \in Events : \A j \in 1..NDepth :
        ReturnedDv(e).dvs[j] = Zero /\ ReturnedDv(e).dvp[j] = Zero
IsFinite(v) == ~IsNaN(v) /\ ~IsInf(v)

\* C11: when every P and S perturbation the 3-D model returns is zero,
\* psrf_3D_migration adds a zero correction at every depth sample of every
\* event and returns the 1-D travel-time curves it was given, also where a
\* ray length is invalid.
C11_ZeroFieldKeepsCurves ==
    (pc = "migrated" /\ AllZeroDv) =>
        /\ timecorrections = ZeroRows(NDepth)
        /\ Tpds = tps

\* a zero field was applied to ray lengths with an invalid sample
C11_Witness ==
    /\ pc = "migrated"
    /\ AllZeroDv
    /\ args.invalid # {}
    /\ \E e \in Events : tps[e][NDepth] # Zero
    /\ Tpds = tps

\* C12: every per-depth term that is NaN, inf or -inf is replaced by zero
\* before the cumulative sum, so the accumulated correction of every event
\* is finite at every depth.
C12_Counterexample ==
    pc = "migrated" =>
        \A e \in Events : \A j \in 1..NDepth : IsFinite(timecorrections[e][j])

MoveoutCorrectDone ==
    args.fn = "RFStation.moveoutcorrect" /\ pc \in {"returned", "raised"}
MoveoutRefErrors == {Interp1dError, IndexError, SequenceError}

\* C13: RFStation.moveoutcorrect on a station built with any accepted prime
\* component (R, Q, L or Z) returns the corrected array of the prime channel
\* together with the corrected transverse array (None with only_r), and
\* with replace=True stores them into the record instead.
C13_Counterexample ==
    (MoveoutCorrectDone /\ error \notin MoveoutRefErrors) =>
        /\ pc = "returned"
        /\ IF args.replace
           THEN rf_corr = << >> /\ t_corr = << >>
           ELSE /\ rf_corr = Newdata(MoveoutRows(args.raypref, Lower(comp)))
                /\ t_corr = IF only_r THEN << >>
                            ELSE Newdata(MoveoutRows(args.raypref, "t"))

\* C16: after any sequence of sort, normalize and moveoutcorrect(replace=True)
\* the number of events is unchanged, and every amplitude row is paired
\* with the ray parameter and the back-azimuth of the event it was recorded
\* for: sort applies one permutation to the metadata arrays and to the rows
\* of every amplitude array.
C16_RowsStayPaired ==
    /\ DOMAIN rayp = Events /\ DOMAIN bazi = Events /\ DOMAIN event = Events
    /\ DOMAIN datar = Events
    /\ ~only_r => DOMAIN datat = Events
    /\ \A e \in Events :
          /\ recorded_r[e] = <<rayp[e], bazi[e]>>
          /\ ~only_r => recorded_t[e] = <<rayp[e], bazi[e]>>

\* a sort that changed the order, followed by a moveoutcorrect(replace=True)
\* that stored its arrays
C16_Witness ==
    /\ ncalls = 2
    /\ args.fn = "RFStation.moveoutcorrect" /\ args.replace /\ pc = "returned"
    /\ ~only_r
    /\ event # [e \in Events |-> e]

Ray3DTraced(e) ==
    /\ args.fn = "psrf_3D_raytracing"
    /\ pc \in {"ray3d", "returned"}
    /\ e <= i
\* the advance of an offset over one depth step, for the velocity sampled
\* at the leg's conversion point and the ray parameter p
Advance(x, lat, lon, j, v, p) ==
    VAdd(VMul(Mean_diff(dep_range),
              TanAsin(VMul(interpn(v, lat[j], lon[j]), p))), x[j])

\* C14: both legs of every event start at the station with zero offset, and
\* at each depth step the S-leg offset is advanced with the ray parameter of
\* the S leg (the looked-up one when a library is supplied) and the P-leg
\* offset with the ray parameter of the P leg.
C14_Counterexample ==
    \A e \in Events : Ray3DTraced(e) =>
        /\ x_s[e][1] = Zero /\ x_p[e][1] = Zero
        /\ pplat_s[e][1] = stla /\ pplon_s[e][1] = stlo
        /\ pplat_p[e][1] = stla /\ pplon_p[e][1] = stlo
        /\ \A j \in 1..(NDepth - 1) :
              /\ x_s[e][j + 1] = Advance(x_s[e], pplat_s[e], pplon_s[e], j,
                                         model_vs, srad2skm(SRayP(e)))
              /\ x_p[e][j + 1] = Advance(x_p[e], pplat_p[e], pplon_p[e], j,
                                         model_vp, srad2skm(rayp[e]))

Ray3DDone ==
    /\ args.fn = "psrf_3D_raytracing"
    /\ args.srayp \in {"none", "lib"}
    /\ pc \in {"returned", "raised"}

\* C15: with elevation = 0 psrf_3D_raytracing returns a travel-time output
\* of zeros for every event; with elevation # 0 it returns the accumulated
\* correction of every event re-interpolated onto the caller's grid.
C15_Counterexample ==
    Ray3DDone =>
        /\ pc = "returned"
        /\ args.elevation = 0 => tps = ZeroRows(NDepth)
        /\ args.elevation # 0 =>
              \A e \in Events : \E ddepth \in {Mean_diff(dep_range)} :
                 tps[e] = interp1d(Shifted(YAxisRange, args.elevation),
                                   tps_corr(SLeg(e, ddepth).v, PLeg(e, ddepth).v,
                                            srad2skm(SRayP(e)), srad2skm(rayp[e]),
                                            ddepth),
                                   NaN, NaN, YAxisRange).val

\* C17: psrf_3D_raytracing leaves the caller's depth grid as it was passed,
\* for every elevation.
C17_Counterexample ==
    args.fn = "psrf_3D_raytracing" => dep_range = YAxisRange

=============================================================================
